---- MODULE Spec2Model ----
(***************************************************************************)
(* Model of lsusb.py: enumeration of the USB device interfaces through     *)
(* SetupAPI, extraction of (vid, pid) from the device path, the diff of    *)
(* two snapshots and the tracking loop of main().                          *)
(*                                                                         *)
(* A Python str is a sequence of one-character strings.  Positions are     *)
(* 0-based as in Python; Slice(s, a, b) is s[a:b].                         *)
(***************************************************************************)
EXTENDS Integers, Sequences, FiniteSets, TLC

----------------------------------------------------------------------------
(* Bounds of the model *)

\* devices attached at once
MaxDevs == 2
\* chunks a generated device path is made of (SpecExtract)
MaxChunks == 5
\* identities in a snapshot handed to print_diff (SpecDiff)
MaxSnap == 3

----------------------------------------------------------------------------
(* Python str operations used by extract_ids *)

Min(a, b) == IF a < b THEN a ELSE b

\* s[a:b] for 0 <= a, b: the bounds are clamped to len(s)
Slice(s, a, b) == SubSeq(s, a + 1, Min(b, Len(s)))

\* sub occurs in s at 0-based position i
OccursAt(s, sub, i) ==
    /\ i + Len(sub) <= Len(s)
    /\ \A k \in 1..Len(sub) : s[i + k] = sub[k]

\* s.find(sub): the lowest position of sub in s, -1 when there is none
Find(s, sub) ==
    LET hits == {i \in 0..Len(s) : OccursAt(s, sub, i)}
    IN  IF hits = {} THEN -1
        ELSE CHOOSE i \in hits : \A j \in hits : i <= j

\* the digit table of int(): 0-9, then letters of either case from 10 on;
\* 37 for anything that is no digit
DigitValue(c) ==
    CASE c = "0" -> 0  [] c = "1" -> 1  [] c = "2" -> 2  [] c = "3" -> 3
      [] c = "4" -> 4  [] c = "5" -> 5  [] c = "6" -> 6  [] c = "7" -> 7
      [] c = "8" -> 8  [] c = "9" -> 9
      [] c \in {"a", "A"} -> 10  [] c \in {"b", "B"} -> 11
      [] c \in {"c", "C"} -> 12  [] c \in {"d", "D"} -> 13
      [] c \in {"e", "E"} -> 14  [] c \in {"f", "F"} -> 15
      [] c \in {"i", "I"} -> 18  [] c \in {"p", "P"} -> 25
      [] c \in {"v", "V"} -> 31  [] c \in {"x", "X"} -> 33
      [] c \in {"z", "Z"} -> 35
      [] OTHER -> 37

IsSpace(c) == c \in {" ", "\t", "\n", "\r"}

\* number of leading whitespace characters of s from 1-based position i on
RECURSIVE SkipSpace(_, _)
SkipSpace(s, i) ==
    IF i <= Len(s) /\ IsSpace(s[i]) THEN SkipSpace(s, i + 1) ELSE i

\* scan of digits and single underscores in base `base` from position i:
\* [end, val, n, prev, bad]; bad when two underscores follow one another
RECURSIVE ScanDigits(_, _, _, _, _, _)
ScanDigits(s, base, i, val, n, prev) ==
    IF i <= Len(s) /\ (DigitValue(s[i]) < base \/ s[i] = "_")
    THEN IF s[i] = "_"
         THEN IF prev = "_"
              THEN [end |-> i, val |-> val, n |-> n, prev |-> prev, bad |-> TRUE]
              ELSE ScanDigits(s, base, i + 1, val, n, "_")
         ELSE ScanDigits(s, base, i + 1, val * base + DigitValue(s[i]), n + 1, s[i])
    ELSE [end |-> i, val |-> val, n |-> n, prev |-> prev, bad |-> FALSE]

ValueError == [raised |-> TRUE, val |-> 0]

Returned(v) == [raised |-> FALSE, val |-> v]

\* int(s, 0x10): surrounding whitespace, an optional sign, an optional 0x/0X
\* prefix (one underscore may follow it), digits with single underscores
\* between them; anything else raises ValueError
ParseInt16(s) ==
    LET i0   == SkipSpace(s, 1)
        neg  == i0 <= Len(s) /\ s[i0] = "-"
        i1   == IF i0 <= Len(s) /\ s[i0] \in {"+", "-"} THEN i0 + 1 ELSE i0
        pref == /\ i1 + 1 <= Len(s)
                /\ s[i1] = "0"
                /\ s[i1 + 1] \in {"x", "X"}
        i2   == IF pref
                THEN IF i1 + 2 <= Len(s) /\ s[i1 + 2] = "_" THEN i1 + 3 ELSE i1 + 2
                ELSE i1
        sc   == ScanDigits(s, 16, i2, 0, 0, "")
        i3   == SkipSpace(s, sc.end)
    IN  IF \/ (i2 <= Len(s) /\ s[i2] = "_")
           \/ sc.bad
           \/ sc.prev = "_"
           \/ sc.n = 0
           \/ i3 <= Len(s)
        THEN ValueError
        ELSE Returned(IF neg THEN 0 - sc.val ELSE sc.val)

VidMarker == <<"v", "i", "d", "_">>

PidMarker == <<"p", "i", "d", "_">>

\* extract_ids without the test of line 112: a missing marker is an error
extract_ids_NoSentinel(path) ==
    LET vid_pos == Find(path, VidMarker)
        pid_pos == Find(path, PidMarker)
        vid == ParseInt16(Slice(path, vid_pos + 4, vid_pos + 8))
        pid == ParseInt16(Slice(path, pid_pos + 4, pid_pos + 8))
    IN  IF vid_pos = -1 \/ pid_pos = -1 THEN ValueError
        ELSE IF vid.raised \/ pid.raised THEN ValueError
        ELSE Returned(<<vid.val, pid.val>>)

\* extract_ids with the ValueError of int() caught and turned into (0, 0)
extract_ids_Swallow(path) ==
    LET vid_pos == Find(path, VidMarker)
        pid_pos == Find(path, PidMarker)
        vid == ParseInt16(Slice(path, vid_pos + 4, vid_pos + 8))
        pid == ParseInt16(Slice(path, pid_pos + 4, pid_pos + 8))
    IN  IF vid_pos = -1 \/ pid_pos = -1 THEN Returned(<<0, 0>>)
        ELSE IF vid.raised \/ pid.raised THEN Returned(<<0, 0>>)
        ELSE Returned(<<vid.val, pid.val>>)

\* extract_ids with the slice of line 115 one character short
extract_ids_Offset(path) ==
    LET vid_pos == Find(path, VidMarker)
        pid_pos == Find(path, PidMarker)
        vid == ParseInt16(Slice(path, vid_pos + 4, vid_pos + 8))
        pid == ParseInt16(Slice(path, pid_pos + 4, pid_pos + 7))
    IN  IF vid_pos = -1 \/ pid_pos = -1 THEN Returned(<<0, 0>>)
        ELSE IF vid.raised \/ pid.raised THEN ValueError
        ELSE Returned(<<vid.val, pid.val>>)

\* extract_ids(path): (0, 0) when a marker is missing, else the two parsed
\* numbers; a ValueError of int() propagates
extract_ids(path) ==
    LET vid_pos == Find(path, VidMarker)
        pid_pos == Find(path, PidMarker)
        vid == ParseInt16(Slice(path, vid_pos + 4, vid_pos + 8))
        pid == ParseInt16(Slice(path, pid_pos + 4, pid_pos + 8))
    IN  IF vid_pos = -1 \/ pid_pos = -1 THEN Returned(<<0, 0>>)
        ELSE IF vid.raised \/ pid.raised THEN ValueError
        ELSE Returned(<<vid.val, pid.val>>)

----------------------------------------------------------------------------
(* print_diff *)

\* dev in list: Python's membership test of a list, by equality
In(dev, list) == \E k \in 1..Len(list) : list[k] = dev

\* the loop of lines 92-94 with insert(0, dev) in place of append(dev)
RECURSIVE RemovedLoop_Prepend(_, _, _, _)
RemovedLoop_Prepend(old, new, k, removed) ==
    IF k > Len(old) THEN removed
    ELSE RemovedLoop_Prepend(old, new, k + 1,
                             IF ~In(old[k], new) THEN <<old[k]>> \o removed ELSE removed)

\* for dev in old: if not dev in new: removed.append(dev)
RECURSIVE RemovedLoop(_, _, _, _)
RemovedLoop(old, new, k, removed) ==
    IF k > Len(old) THEN removed
    ELSE RemovedLoop(old, new, k + 1,
                     IF ~In(old[k], new) THEN Append(removed, old[k]) ELSE removed)

\* the loop of lines 96-98 with the membership tested in new, not in old
RECURSIVE AddedLoop_WrongList(_, _, _, _)
AddedLoop_WrongList(old, new, k, added) ==
    IF k > Len(new) THEN added
    ELSE AddedLoop_WrongList(old, new, k + 1,
                             IF ~In(new[k], new) THEN Append(added, new[k]) ELSE added)

\* for dev in new: if not dev in old: added.append(dev)
RECURSIVE AddedLoop(_, _, _, _)
AddedLoop(old, new, k, added) ==
    IF k > Len(new) THEN added
    ELSE AddedLoop(old, new, k + 1,
                   IF ~In(new[k], old) THEN Append(added, new[k]) ELSE added)


\* lines 89-98, the two lists print_diff(old, new) builds
print_diff_Lists(old, new) ==
    [added   |-> AddedLoop(old, new, 1, <<>>),
     removed |-> RemovedLoop(old, new, 1, <<>>)]

----------------------------------------------------------------------------
(* print_devices and the catalog VIDPID *)

HexChars == <<"0", "1", "2", "3", "4", "5", "6", "7",
              "8", "9", "a", "b", "c", "d", "e", "f">>

\* the lower-case hex digits of n >= 0, most significant first ("0" for 0)
RECURSIVE HexOf(_)
HexOf(n) ==
    IF n < 16 THEN <<HexChars[n + 1]>>
    ELSE Append(HexOf(n \div 16), HexChars[(n % 16) + 1])

RECURSIVE ZeroPad(_, _)
ZeroPad(digits, width) ==
    IF Len(digits) >= width THEN digits ELSE ZeroPad(<<"0">> \o digits, width)

\* f"{n:04x}": zero-padded to a width of 4, the sign counted in the width
Format04x(n) ==
    IF n < 0 THEN <<"-">> \o ZeroPad(HexOf(0 - n), 3)
    ELSE ZeroPad(HexOf(n), 4)

\* the catalog is a dict vid -> {"name", "pids": dict pid -> name}
EmptyCatalog == [v \in {} |-> 0]

LogitechCatalog ==
    [v \in {1133} |->
        [name |-> "Logitech, Inc.",
         pids |-> [q \in {50475} |-> "Unifying Receiver"]]]

Catalogs == {EmptyCatalog, LogitechCatalog}

\* one line of print_devices: f"{vid:04x}:{pid:04x} {descr}"
DeviceLine(catalog, dev) ==
    LET vid == dev[1]
        pid == dev[2]
        descr == IF vid \in DOMAIN catalog
                 THEN <<catalog[vid].name,
                        IF pid \in DOMAIN catalog[vid].pids
                        THEN catalog[vid].pids[pid]
                        ELSE "Unknown device">>
                 ELSE <<>>
    IN  [id |-> Format04x(vid) \o <<":">> \o Format04x(pid), descr |-> descr]

print_devices(catalog, vidpids) ==
    [k \in 1..Len(vidpids) |-> DeviceLine(catalog, vidpids[k])]

\* lines 100-105, the lines print_diff prints: each section only when its
\* list is non-empty
print_diff_Lines(catalog, add, rem) ==
    (IF add # <<>>
     THEN <<"Added devices:">> \o print_devices(catalog, add)
     ELSE <<>>)
    \o
    (IF rem # <<>>
     THEN <<"Removed devices:">> \o print_devices(catalog, rem)
     ELSE <<>>)

----------------------------------------------------------------------------
(* The operating system: attached devices, SetupAPI *)

Str_VID_ == <<"V", "I", "D", "_">>

\* device paths of the devices that can be attached in Spec
PathLogitech == VidMarker \o <<"0", "4", "6", "D", "&">> \o PidMarker \o <<"C", "5", "2", "B">>
PathOther    == VidMarker \o <<"1", "2", "3", "4", "&">> \o PidMarker \o <<"5", "6", "7", "8", "#", "1">>
PathNoMarker == <<"u", "s", "b", "#">> \o Str_VID_ \o <<"0", "4", "6", "D">>
PathBadHex   == VidMarker \o <<"z", "z", "z", "z", "&">> \o PidMarker \o <<"0", "0", "0", "1">>

DevicePaths == {PathLogitech, PathOther, PathNoMarker, PathBadHex}

\* the pieces the device paths of SpecExtract are concatenated from
Chunks == {VidMarker, PidMarker, Str_VID_,
           <<"0", "4", "6", "D">>, <<"c", "5", "2", "B">>,
           <<"-", "1", "a", "2">>, <<"z", "z">>}

RECURSIVE Concat(_)
Concat(chunks) ==
    IF chunks = <<>> THEN <<>> ELSE Head(chunks) \o Concat(Tail(chunks))

GenPaths ==
    {Concat(cs) : cs \in UNION {[1..n -> Chunks] : n \in 0..MaxChunks}}

\* sequences over S of length at most n
SeqUpTo(S, n) == UNION {[1..k -> S] : k \in 0..n}

ERROR_NO_MORE_ITEMS == 259

\* error codes of a SetupAPI call that fails for a reason of its own, other
\* than "no more items" (259), "invalid handle" (6) and "insufficient
\* buffer" (122): ERROR_GEN_FAILURE
OtherErrors == {31}

\* the error codes with which a call can fail for a reason of its own
Failures(f) == IF f THEN OtherErrors ELSE {}

\* the values SetupDiGetClassDevsW can return through restype c_void_p:
\* a device information set, or on failure INVALID_HANDLE_VALUE (the
\* documented failure value, a non-zero integer) or NULL (None)
ValidHandle   == "HDEVINFO"
InvalidHandle == "INVALID_HANDLE_VALUE"
NullHandle    == "NULL"

\* Python truth value of what the c_void_p restype yields
Truthy(h) == h # NullHandle

\* bytes the sizing probe reports for a path: the DWORD cbSize and the
\* NUL-terminated wide string
RequiredSize(p) == 4 + 2 * (Len(p) + 1)

\* sizeof(INTF_DETAIL) with DevicePath = c_wchar * n: a DWORD and n wide
\* characters, padded to the DWORD alignment
SizeofDetail(n) == 4 * ((4 + 2 * n + 3) \div 4)

----------------------------------------------------------------------------
(* State *)

VARIABLES
    argv,        \* sys.argv[1:]
    mode,        \* main's mode: "list" or "track"
    pc,          \* the statement the process is at
    caller,      \* who called get_dev_list: "first" (line 198), "loop" (205), "unit"
    cache,       \* the file usb.ids: [exists, ids]
    VIDPID,      \* the catalog
    faults,      \* OS: whether SetupAPI calls can fail for reasons of their own
    devs,        \* OS: device paths of the attached devices, in enumeration order
    session,     \* OS: the device information set of the open session
    os_open,     \* OS: number of device information sets not yet destroyed
    h_devs,      \* get_dev_list: the handle
    index,       \* get_dev_list: member index
    size,        \* get_dev_list: DWORD written by the sizing probe
    error_code,  \* get_dev_list: error_code of line 147 (0: not assigned yet)
    intf,        \* get_dev_list: intf_data, the entry retrieved (0: none yet)
    path,        \* get_dev_list: details.DevicePath
    ret,         \* get_dev_list: the list being built
    errors,      \* error lines the current (or the last) call of get_dev_list printed
    queries,     \* indices passed to SetupDiEnumDeviceInterfaces by the current call
    probes,      \* error code of the sizing probe of each entry of the current call
    destroyed,   \* handles passed to SetupDiDestroyDeviceInfoList by the current call
    prev_list,   \* main: the retained snapshot
    new_list,    \* main: the snapshot of the current iteration
    added,       \* print_diff: its list added
    removed,     \* print_diff: its list removed
    out          \* lines printed by main, print_devices and print_diff since the
                 \* current tracking iteration began (since the start, before that)

vars == <<argv, mode, pc, caller, cache, VIDPID, faults, devs, session, os_open,
          h_devs, index, size, error_code, intf, path, ret, errors, queries, probes,
          destroyed, prev_list, new_list, added, removed, out>>

osVars    == <<faults, devs, session, os_open>>
localVars == <<h_devs, index, size, error_code, intf, path, ret>>
ghostVars == <<errors, queries, probes, destroyed>>
mainVars  == <<argv, mode, cache, VIDPID, prev_list, new_list, added, removed, out>>

NoFile == [exists |-> FALSE, ids |-> EmptyCatalog]

Argvs == {<<>>, <<"track">>, <<"list">>, <<"track", "track">>}

\* lines 120-128: the locals of get_dev_list as a call starts
EnterGetDevList(who) ==
    /\ caller' = who
    /\ pc' = "get_class_devs"
    /\ ret' = <<>>
    /\ index' = 0
    /\ size' = 0
    /\ error_code' = 0
    /\ intf' = 0
    /\ path' = <<>>
    /\ h_devs' = NullHandle
    /\ errors' = <<>>
    /\ queries' = <<>>
    /\ probes' = <<>>
    /\ destroyed' = <<>>

Report(fn, code) == Append(errors, [fn |-> fn, code |-> code])

----------------------------------------------------------------------------
(* get_dev_list, one action per SetupAPI call *)

GetClassDevsOutcomes(f) ==
    {ValidHandle} \cup (IF f THEN {InvalidHandle, NullHandle} ELSE {})

\* lines 132-135
GetClassDevs ==
    /\ pc = "get_class_devs"
    /\ \E h \in GetClassDevsOutcomes(faults), code \in OtherErrors :
          /\ h_devs' = h
          /\ IF h = ValidHandle
             THEN /\ session' = devs
                  /\ os_open' = os_open + 1
             ELSE UNCHANGED <<session, os_open>>
          /\ IF ~Truthy(h)
             THEN /\ errors' = Report("SetupDiGetClassDevsW", code)
                  /\ pc' = "return"
             ELSE /\ errors' = errors
                  /\ pc' = "enum"
    /\ UNCHANGED <<faults, devs, index, size, error_code, intf, path, ret, queries,
                   probes, destroyed, caller, mainVars>>

\* what SetupDiEnumDeviceInterfaces can answer for member index i of the set
\* behind handle h: 0 for success, else the error code of get_last_error()
EnumOutcomes(h, i) ==
    IF h # ValidHandle THEN {6}
    ELSE (IF i < Len(session) THEN {0} ELSE {ERROR_NO_MORE_ITEMS}) \cup Failures(faults)

\* lines 145-150 with the list emptied when a status is reported
EnumDeviceInterfaces_Discards ==
    /\ pc = "enum"
    /\ queries' = Append(queries, index)
    /\ \E last_error \in EnumOutcomes(h_devs, index) :
          IF last_error = 0
          THEN /\ intf' = index + 1
               /\ pc' = "probe"
               /\ UNCHANGED <<error_code, errors, ret>>
          ELSE /\ intf' = intf
               /\ error_code' = last_error
               /\ pc' = "destroy"
               /\ errors' = IF last_error # ERROR_NO_MORE_ITEMS
                            THEN Report("SetupDiEnumDeviceInterfaces", last_error)
                            ELSE errors
               /\ ret' = IF last_error # ERROR_NO_MORE_ITEMS THEN <<>> ELSE ret
    /\ UNCHANGED <<osVars, h_devs, index, size, path, probes, destroyed,
                   caller, mainVars>>

\* lines 145-150
EnumDeviceInterfaces ==
    /\ pc = "enum"
    /\ queries' = Append(queries, index)
    /\ \E last_error \in EnumOutcomes(h_devs, index) :
          IF last_error = 0
          THEN /\ intf' = index + 1
               /\ pc' = "probe"
               /\ UNCHANGED <<error_code, errors>>
          ELSE /\ intf' = intf
               /\ error_code' = last_error
               /\ pc' = "destroy"
               /\ errors' = IF last_error # ERROR_NO_MORE_ITEMS
                            THEN Report("SetupDiEnumDeviceInterfaces", last_error)
                            ELSE errors
    /\ UNCHANGED <<osVars, h_devs, index, size, path, ret, probes, destroyed,
                   caller, mainVars>>

\* line 161: the sizing probe; its status is not looked at.  It answers
\* ERROR_INSUFFICIENT_BUFFER (122) and writes the required size, or fails
\* with another error and writes nothing
ProbeSize ==
    /\ pc = "probe"
    /\ \E code \in {122} \cup Failures(faults) :
          /\ size' = IF code = 122 THEN RequiredSize(session[intf]) ELSE size
          /\ probes' = Append(probes, code)
    /\ pc' = "fetch"
    /\ UNCHANGED <<osVars, h_devs, index, error_code, intf, path, ret, errors,
                   queries, destroyed, caller, mainVars>>

\* what the second SetupDiGetDeviceInterfaceDetailW can answer when given a
\* buffer of n bytes for entry e: 0 for success, else the error code
FetchOutcomes(e, n) ==
    (IF n >= RequiredSize(session[e]) THEN {0} ELSE {122}) \cup Failures(faults)

\* lines 162-173
FetchDetail ==
    /\ pc = "fetch"
    /\ \E code \in FetchOutcomes(intf, SizeofDetail(size)) :
          IF code = 0
          THEN /\ path' = session[intf]
               /\ errors' = errors
               /\ pc' = "append"
          ELSE /\ path' = path
               /\ errors' = Report("SetupDiGetDeviceInterfaceDetailW_2", code)
               /\ pc' = "destroy"
    /\ UNCHANGED <<osVars, h_devs, index, size, error_code, intf, ret, queries,
                   probes, destroyed, caller, mainVars>>

\* lines 175-177 with index += 2 at line 177
AppendIds_Skips ==
    /\ pc = "append"
    /\ LET r == extract_ids(path)
       IN  IF r.raised
           THEN /\ pc' = "raised"
                /\ UNCHANGED <<ret, index>>
           ELSE /\ ret' = Append(ret, r.val)
                /\ index' = index + 2
                /\ pc' = "enum"
    /\ UNCHANGED <<osVars, h_devs, size, error_code, intf, path, ghostVars,
                   caller, mainVars>>

\* lines 175-177; a ValueError of extract_ids is caught nowhere: it leaves
\* get_dev_list and main, and the process ends with a traceback
AppendIds ==
    /\ pc = "append"
    /\ LET r == extract_ids(path)
       IN  IF r.raised
           THEN /\ pc' = "raised"
                /\ UNCHANGED <<ret, index>>
           ELSE /\ ret' = Append(ret, r.val)
                /\ index' = index + 1
                /\ pc' = "enum"
    /\ UNCHANGED <<osVars, h_devs, size, error_code, intf, path, ghostVars,
                   caller, mainVars>>

\* lines 179-180
DestroyDeviceInfoList ==
    /\ pc = "destroy"
    /\ destroyed' = Append(destroyed, h_devs)
    /\ IF h_devs = ValidHandle
       THEN /\ os_open' = os_open - 1
            /\ session' = <<>>
       ELSE UNCHANGED <<os_open, session>>
    /\ pc' = "return"
    /\ UNCHANGED <<faults, devs, localVars, errors, queries, probes, caller,
                   mainVars>>

\* line 181: the frame of get_dev_list is dropped and the list goes to the
\* caller: prev_list (line 198) or new_list (line 205)
Return ==
    /\ pc = "return"
    /\ IF caller = "first"
       THEN /\ prev_list' = ret
            /\ new_list' = new_list
            /\ pc' = "print_installed"
       ELSE /\ new_list' = ret
            /\ prev_list' = prev_list
            /\ pc' = IF caller = "loop" THEN "compare" ELSE "done"
    /\ h_devs' = NullHandle
    /\ index' = 0
    /\ size' = 0
    /\ error_code' = 0
    /\ intf' = 0
    /\ path' = <<>>
    /\ ret' = <<>>
    /\ queries' = <<>>
    /\ probes' = <<>>
    /\ destroyed' = <<>>
    /\ UNCHANGED <<osVars, errors, caller, argv, mode, cache, VIDPID,
                   added, removed, out>>

----------------------------------------------------------------------------
(* main *)

UsageLine == "Usage: lsusb.py [track]"

\* lines 185-194
Main ==
    /\ pc = "main"
    /\ IF Len(argv) > 1
       THEN /\ out' = Append(out, UsageLine)
            /\ mode' = mode
            /\ pc' = "exit"
       ELSE IF Len(argv) = 1
            THEN IF argv[1] = "track"
                 THEN /\ mode' = "track"
                      /\ out' = out
                      /\ pc' = "load_ids"
                 ELSE /\ out' = Append(out, UsageLine)
                      /\ mode' = mode
                      /\ pc' = "exit"
            ELSE /\ mode' = mode
                 /\ out' = out
                 /\ pc' = "load_ids"
    /\ UNCHANGED <<argv, cache, VIDPID, prev_list, new_list, added, removed,
                   caller, osVars, localVars, ghostVars>>

\* the usb.ids the remote site serves
RemoteIds == LogitechCatalog

\* what requests.head can do: raise (no network, no last-modified header),
\* or answer; newer tells whether local_ts < remote_ts (line 30), which is
\* so whenever there is no local file (local_ts = 0)
HeadOutcomes(exists) ==
    {[raises |-> TRUE, newer |-> FALSE]}
        \cup {[raises |-> FALSE, newer |-> n] : n \in IF exists THEN BOOLEAN ELSE {TRUE}}

\* what requests.get can do: raise, or answer with a status code
GetOutcomes ==
    {[raises |-> TRUE, status_code |-> 0], [raises |-> FALSE, status_code |-> 404],
     [raises |-> FALSE, status_code |-> 200]}

\* lines 18-69 (line 196).  Every exception (of requests, of the header
\* lookup, of open() when there is no file) leaves load_ids and main.  The
\* parse of the file is taken as given: a file holds a catalog
LoadIds ==
    /\ pc = "load_ids"
    /\ \E head \in HeadOutcomes(cache.exists), get \in GetOutcomes :
          LET download == ~head.raises /\ head.newer
              file == IF download /\ ~get.raises /\ get.status_code = 200
                      THEN [exists |-> TRUE, ids |-> RemoteIds]
                      ELSE cache
              lines == <<"Loading USB IDs...">>
                       \o (IF download /\ ~get.raises /\ get.status_code # 200
                           THEN <<"Error downloading USB IDs!">> ELSE <<>>)
          IN  IF head.raises \/ (download /\ get.raises)
              THEN /\ pc' = "raised"
                   /\ out' = out \o <<"Loading USB IDs...">>
                   /\ UNCHANGED <<cache, VIDPID>>
              ELSE /\ cache' = file
                   /\ IF file.exists
                      THEN /\ pc' = "call_first"
                           /\ VIDPID' = file.ids
                           /\ out' = out \o lines \o <<"USB IDs loaded">>
                      ELSE /\ pc' = "raised"
                           /\ VIDPID' = VIDPID
                           /\ out' = out \o lines
    /\ UNCHANGED <<argv, mode, prev_list, new_list, added, removed,
                   caller, osVars, localVars, ghostVars>>

\* line 198
CallFirst ==
    /\ pc = "call_first"
    /\ EnterGetDevList("first")
    /\ UNCHANGED <<osVars, mainVars>>

\* lines 199-203
PrintInstalled ==
    /\ pc = "print_installed"
    /\ out' = out \o <<"Installed devices:">> \o print_devices(VIDPID, prev_list)
              \o (IF mode = "track" THEN <<"">> ELSE <<>>)
    /\ pc' = IF mode = "track" THEN "loop" ELSE "exit"
    /\ UNCHANGED <<argv, mode, cache, VIDPID, prev_list, new_list, added,
                   removed, caller, osVars, localVars, ghostVars>>

\* line 205: a tracking iteration begins
CallLoop ==
    /\ pc = "loop"
    /\ EnterGetDevList("loop")
    /\ out' = <<>>
    /\ UNCHANGED <<osVars, argv, mode, cache, VIDPID, prev_list, new_list,
                   added, removed>>

\* line 206 with the two lists compared as sets
Compare_AsSets ==
    /\ pc = "compare"
    /\ pc' = IF {new_list[k] : k \in 1..Len(new_list)}
                    # {prev_list[k] : k \in 1..Len(prev_list)}
             THEN "print_diff" ELSE "sleep"
    /\ UNCHANGED <<mainVars, caller, osVars, localVars, ghostVars>>

\* line 206 with a poll that printed an error left out of the comparison
Compare_SkipsFailedPoll ==
    /\ pc = "compare"
    /\ pc' = IF new_list # prev_list /\ errors = <<>> THEN "print_diff" ELSE "sleep"
    /\ UNCHANGED <<mainVars, caller, osVars, localVars, ghostVars>>

\* line 206
Compare ==
    /\ pc = "compare"
    /\ pc' = IF new_list # prev_list THEN "print_diff" ELSE "sleep"
    /\ UNCHANGED <<mainVars, caller, osVars, localVars, ghostVars>>

\* lines 89-98 with the loop of lines 96-98 taking out of new, in place, the
\* devices it finds in old
DiffLoops_Consumes ==
    /\ pc = "print_diff"
    /\ added' = print_diff_Lists(prev_list, new_list).added
    /\ removed' = print_diff_Lists(prev_list, new_list).removed
    /\ new_list' = print_diff_Lists(prev_list, new_list).added
    /\ pc' = "print_diff_out"
    /\ UNCHANGED <<argv, mode, cache, VIDPID, prev_list, out, caller,
                   osVars, localVars, ghostVars>>

\* lines 89-98: print_diff(prev_list, new_list) builds its two lists
DiffLoops ==
    /\ pc = "print_diff"
    /\ added' = print_diff_Lists(prev_list, new_list).added
    /\ removed' = print_diff_Lists(prev_list, new_list).removed
    /\ pc' = "print_diff_out"
    /\ UNCHANGED <<argv, mode, cache, VIDPID, prev_list, new_list, out, caller,
                   osVars, localVars, ghostVars>>

\* lines 100-105 and 208 without the assignment of line 209
DiffPrint_KeepsOld ==
    /\ pc = "print_diff_out"
    /\ added' = <<>>
    /\ removed' = <<>>
    /\ out' = out \o print_diff_Lines(VIDPID, added, removed)
                  \o (IF caller = "loop" THEN <<"">> ELSE <<>>)
    /\ prev_list' = prev_list
    /\ pc' = IF caller = "loop" THEN "sleep" ELSE "done"
    /\ UNCHANGED <<argv, mode, cache, VIDPID, new_list, caller, osVars,
                   localVars, ghostVars>>

\* lines 100-105: print_diff prints and returns; then in main lines 208-209
DiffPrint ==
    /\ pc = "print_diff_out"
    /\ added' = <<>>
    /\ removed' = <<>>
    /\ IF caller = "loop"
       THEN /\ out' = out \o print_diff_Lines(VIDPID, added, removed) \o <<"">>
            /\ prev_list' = new_list
            /\ pc' = "sleep"
       ELSE /\ out' = out \o print_diff_Lines(VIDPID, added, removed)
            /\ prev_list' = prev_list
            /\ pc' = "done"
    /\ UNCHANGED <<argv, mode, cache, VIDPID, new_list, caller, osVars,
                   localVars, ghostVars>>

\* line 210
Sleep ==
    /\ pc = "sleep"
    /\ pc' = "loop"
    /\ UNCHANGED <<mainVars, caller, osVars, localVars, ghostVars>>

----------------------------------------------------------------------------
(* The environment: devices come and go while the process sleeps *)

RemoveAt(s, k) == SubSeq(s, 1, k - 1) \o SubSeq(s, k + 1, Len(s))

Plug ==
    /\ pc = "sleep"
    /\ Len(devs) < MaxDevs
    /\ \E p \in DevicePaths : devs' = Append(devs, p)
    /\ UNCHANGED <<faults, session, os_open, pc, caller, mainVars, localVars,
                   ghostVars>>

Unplug ==
    /\ pc = "sleep"
    /\ \E k \in 1..Len(devs) : devs' = RemoveAt(devs, k)
    /\ UNCHANGED <<faults, session, os_open, pc, caller, mainVars, localVars,
                   ghostVars>>

----------------------------------------------------------------------------
(* The program *)

InitCommon ==
    /\ mode = "list"
    /\ session = <<>>
    /\ os_open = 0
    /\ h_devs = NullHandle
    /\ index = 0
    /\ size = 0
    /\ error_code = 0
    /\ intf = 0
    /\ path = <<>>
    /\ ret = <<>>
    /\ errors = <<>>
    /\ queries = <<>>
    /\ probes = <<>>
    /\ destroyed = <<>>
    /\ added = <<>>
    /\ removed = <<>>
    /\ out = <<>>

Init ==
    /\ InitCommon
    /\ argv \in Argvs
    /\ pc = "main"
    /\ caller = "first"
    /\ VIDPID = EmptyCatalog
    /\ faults = TRUE
    /\ cache \in {NoFile} \cup {[exists |-> TRUE, ids |-> c] : c \in Catalogs}
    /\ devs \in SeqUpTo(DevicePaths, MaxDevs)
    /\ prev_list = <<>>
    /\ new_list = <<>>

Next ==
    \/ Main
    \/ LoadIds
    \/ CallFirst
    \/ PrintInstalled
    \/ CallLoop
    \/ Compare
    \/ DiffLoops
    \/ DiffPrint
    \/ Sleep
    \/ GetClassDevs
    \/ EnumDeviceInterfaces
    \/ ProbeSize
    \/ FetchDetail
    \/ AppendIds
    \/ DestroyDeviceInfoList
    \/ Return
    \/ Plug
    \/ Unplug

Spec == Init /\ [][Next]_vars

----------------------------------------------------------------------------
(* get_dev_list called once, on one attached device with a generated path *)

InitExtract ==
    /\ InitCommon
    /\ argv = <<>>
    /\ pc = "get_class_devs"
    /\ caller = "unit"
    /\ VIDPID = EmptyCatalog
    /\ faults = FALSE
    /\ cache = NoFile
    /\ devs \in {<<p>> : p \in GenPaths}
    /\ prev_list = <<>>
    /\ new_list = <<>>

NextExtract ==
    \/ GetClassDevs
    \/ EnumDeviceInterfaces
    \/ ProbeSize
    \/ FetchDetail
    \/ AppendIds
    \/ DestroyDeviceInfoList
    \/ Return

SpecExtract == InitExtract /\ [][NextExtract]_vars

----------------------------------------------------------------------------
(* print_diff called once, on two snapshots *)

Identities == {<<1133, 50475>>, <<4660, 22136>>, <<0, 0>>}

Snapshots == SeqUpTo(Identities, MaxSnap)

InitDiff ==
    /\ InitCommon
    /\ argv = <<>>
    /\ pc = "print_diff"
    /\ caller = "unit"
    /\ cache = NoFile
    /\ devs = <<>>
    /\ faults = FALSE
    /\ VIDPID \in Catalogs
    /\ prev_list \in Snapshots
    /\ new_list \in Snapshots

NextDiff ==
    \/ DiffLoops
    \/ DiffPrint

SpecDiff == InitDiff /\ [][NextDiff]_vars

----------------------------------------------------------------------------
(* Properties *)

\* the call of get_dev_list is over: it is about to return, or an exception
\* has left it
CallOver == pc \in {"return", "raised"}

\* the statement of line 175 has been executed for the path in details
Extracted == pc = "raised" \/ (pc = "enum" /\ index > 0)

\* C1: a call of get_dev_list whose session was opened ends, on every exit
\* path (a return or an exception of step 4), with exactly one
\* SetupDiDestroyDeviceInfoList of the handle and no session left open; no
\* session is open outside a call and never more than one is open.
C1_SessionReleasedOnEveryExit ==
    /\ os_open <= 1
    /\ (CallOver /\ h_devs = ValidHandle)
          => (destroyed = <<ValidHandle>> /\ os_open = 0)
    /\ pc \in {"print_installed", "loop", "compare", "print_diff",
               "print_diff_out", "sleep", "exit"} => os_open = 0

----------------------------------------------------------------------------

Range(list) == {list[k] : k \in 1..Len(list)}

NotIn(list) == [d \in Identities |-> d \notin Range(list)]

\* the subsequence of src of the elements that occur nowhere in other
Absent(src, other) ==
    LET keep(d) == NotIn(other)[d] IN SelectSeq(src, keep)

\* number of positions of list that hold d
Count(d, list) == Cardinality({k \in 1..Len(list) : list[k] = d})

\* C2: print_diff computes removed as the subsequence of old of exactly the
\* elements occurring nowhere in new, and added as the subsequence of new of
\* exactly the elements occurring nowhere in old, order and repetitions kept.
C2_DiffIsMembershipFilter ==
    pc = "print_diff_out"
        => /\ removed = Absent(prev_list, new_list)
           /\ added = Absent(new_list, prev_list)

\* a removed identity that is repeated, next to an identity that both
\* snapshots hold a different number of times
C2_Witness ==
    /\ pc = "print_diff_out"
    /\ Len(removed) >= 2
    /\ removed[1] = removed[2]
    /\ added # <<>>
    /\ \E d \in Identities :
          /\ Count(d, prev_list) >= 1
          /\ Count(d, new_list) >= 1
          /\ Count(d, prev_list) # Count(d, new_list)

\* C3: the added list of diff(A, B) is the removed list of diff(B, A) and
\* the removed list of diff(A, B) is the added list of diff(B, A).
C3_DiffIsSymmetric ==
    pc = "print_diff_out"
        => /\ added = print_diff_Lists(new_list, prev_list).removed
           /\ removed = print_diff_Lists(new_list, prev_list).added

C3_Witness ==
    /\ pc = "print_diff_out"
    /\ Len(added) >= 2
    /\ removed # <<>>
    /\ added[1] # added[2]

----------------------------------------------------------------------------

HexDigitChars == {"0", "1", "2", "3", "4", "5", "6", "7", "8", "9",
                  "a", "b", "c", "d", "e", "f", "A", "B", "C", "D", "E", "F"}

Lower(c) ==
    CASE c = "A" -> "a" [] c = "B" -> "b" [] c = "C" -> "c"
      [] c = "D" -> "d" [] c = "E" -> "e" [] c = "F" -> "f"
      [] OTHER -> c

\* value of a hex digit, read off its lower-case form
HexDigit(c) == CHOOSE n \in 0..15 : HexChars[n + 1] = Lower(c)

\* the marker stands at position i of p and four hex digits follow it
HexAfter(p, marker, i) ==
    /\ OccursAt(p, marker, i)
    /\ i + 8 <= Len(p)
    /\ \A k \in 5..8 : p[i + k] \in HexDigitChars

\* value of the four hex digits that follow the marker at position i
Hex4(p, i) ==
    4096 * HexDigit(p[i + 5]) + 256 * HexDigit(p[i + 6])
        + 16 * HexDigit(p[i + 7]) + HexDigit(p[i + 8])

Positions(p, marker) == {i \in 0..Len(p) : OccursAt(p, marker, i)}

\* the lowest position of the marker in p
First(p, marker) ==
    CHOOSE i \in Positions(p, marker) : \A j \in Positions(p, marker) : i <= j

\* C4 as stated: a path that holds both markers, each followed (somewhere)
\* by four hex digits, yields the pair of the values of those digits.
C4_AnyOccurrence ==
    (/\ Extracted
     /\ \E i \in Positions(path, VidMarker) : HexAfter(path, VidMarker, i)
     /\ \E j \in Positions(path, PidMarker) : HexAfter(path, PidMarker, j))
        => /\ pc = "enum"
           /\ \E i \in Positions(path, VidMarker), j \in Positions(path, PidMarker) :
                 /\ HexAfter(path, VidMarker, i)
                 /\ HexAfter(path, PidMarker, j)
                 /\ ret[index] = <<Hex4(path, i), Hex4(path, j)>>

\* C4, amended: when the first occurrence of each marker is followed by
\* four hex digits of either case, extract_ids returns the pair of the
\* values of the digits after the first "vid_" and after the first "pid_".
C4_FirstOccurrence ==
    (/\ Extracted
     /\ Positions(path, VidMarker) # {}
     /\ Positions(path, PidMarker) # {}
     /\ HexAfter(path, VidMarker, First(path, VidMarker))
     /\ HexAfter(path, PidMarker, First(path, PidMarker)))
        => /\ pc = "enum"
           /\ ret[index] = <<Hex4(path, First(path, VidMarker)),
                             Hex4(path, First(path, PidMarker))>>

\* digits of both cases, and a marker that occurs a second time
C4_Witness ==
    /\ pc = "enum"
    /\ index = 1
    /\ ret = <<<<1133, 50475>>>>
    /\ Cardinality(Positions(path, VidMarker)) = 2
    /\ \E k \in 1..Len(path) : path[k] \in {"A", "B", "C", "D", "E", "F"}
    /\ \E k \in 1..Len(path) : path[k] \in {"a", "b", "c", "e", "f"}

\* C5: a path that lacks "vid_" or lacks "pid_" (in this very case) gives
\* (0, 0) and no error; the enumeration appends it and goes on to query the
\* next index.
C5_MissingMarkerGivesSentinel ==
    (/\ Extracted
     /\ (Positions(path, VidMarker) = {} \/ Positions(path, PidMarker) = {}))
        => /\ pc = "enum"
           /\ ret[index] = <<0, 0>>
           /\ Len(ret) = index
           /\ errors = <<>>

\* "pid_" is there and "VID_" is, but no "vid_"
C5_Witness ==
    /\ pc = "enum"
    /\ index = 1
    /\ ret = <<<<0, 0>>>>
    /\ Positions(path, PidMarker) # {}
    /\ Positions(path, Str_VID_) # {}
    /\ Positions(path, VidMarker) = {}

\* the characters int() is given for a marker: path[pos + 4 : pos + 8]
Digits(p, marker) == Slice(p, First(p, marker) + 4, First(p, marker) + 8)

\* C6: when both markers are there and the characters after one of them are
\* no base-16 integer, extract_ids raises: nothing is appended, neither
\* (0, 0) nor any other identity.
C6_MalformedPathRaises ==
    (/\ Extracted
     /\ Positions(path, VidMarker) # {}
     /\ Positions(path, PidMarker) # {}
     /\ (ParseInt16(Digits(path, VidMarker)).raised
            \/ ParseInt16(Digits(path, PidMarker)).raised))
        => /\ pc = "raised"
           /\ ret = <<>>

\* the digits after "vid_" are fine, those after "pid_" are not
C6_Witness ==
    /\ pc = "raised"
    /\ Positions(path, VidMarker) # {}
    /\ Positions(path, PidMarker) # {}
    /\ HexAfter(path, VidMarker, First(path, VidMarker))
    /\ ParseInt16(Digits(path, PidMarker)).raised
    /\ Digits(path, PidMarker) # <<>>

----------------------------------------------------------------------------

\* C7: when the session cannot be opened, get_dev_list reports the error of
\* SetupDiGetClassDevsW and returns the empty list without having queried
\* an interface entry and without a destroy call on the handle it got.
C7_OpenFailureReturnsEmpty ==
    (pc = "return" /\ h_devs # ValidHandle)
        => /\ ret = <<>>
           /\ Len(errors) = 1
           /\ errors[1].fn = "SetupDiGetClassDevsW"
           /\ queries = <<>>
           /\ destroyed = <<>>

\* the scan was ended by SetupDiEnumDeviceInterfaces: the last index asked
\* for has no sizing probe
EndedByEnum ==
    /\ pc \in {"destroy", "return"}
    /\ Len(queries) = Len(probes) + 1

\* what extract_ids makes of the entries 0 .. n-1 of the attached devices
IdentitiesBefore(n) == [k \in 1..n |-> extract_ids(devs[k]).val]

\* C8: when SetupDiEnumDeviceInterfaces ends the scan, status 0x103 is not
\* reported and every other status is; the list then holds exactly the
\* identities of the entries before the failing index, in order.  With no
\* device attached it is empty and nothing is reported.
C8_EnumStatusEndsScan ==
    EndedByEnum
        => /\ error_code # 0
           /\ error_code = ERROR_NO_MORE_ITEMS => errors = <<>>
           /\ error_code # ERROR_NO_MORE_ITEMS
                 => errors = <<[fn |-> "SetupDiEnumDeviceInterfaces",
                                code |-> error_code]>>
           /\ Len(queries) - 1 <= Len(devs)
           /\ ret = IdentitiesBefore(Len(queries) - 1)
           /\ (devs = <<>> /\ error_code = ERROR_NO_MORE_ITEMS)
                 => (ret = <<>> /\ errors = <<>>)

\* two devices attached, the second query fails with another status: the
\* first identity is returned
C8_Witness ==
    /\ pc = "return"
    /\ EndedByEnum
    /\ Len(devs) = 2
    /\ Len(ret) = 1
    /\ h_devs = ValidHandle
    /\ error_code \in OtherErrors

\* C9: once the sizing probe of an entry has failed, no identity is
\* appended for that entry and the scan is over with the failure reported;
\* the same when the sized fetch fails.
C9_PathFailureEndsScan ==
    \A k \in 1..Len(probes) :
        probes[k] # 122
            => /\ Len(ret) < k
               /\ pc \in {"destroy", "return"}
                     => /\ errors # <<>>
                        /\ errors[Len(errors)].fn = "SetupDiGetDeviceInterfaceDetailW_2"
                        /\ Len(probes) = k

\* C10: the tracking loop never comes to an end: once the loop has begun,
\* the process neither returns from main nor dies of an exception.
C10_TrackingLoopNeverEnds ==
    caller = "loop" => pc \notin {"exit", "raised"}

----------------------------------------------------------------------------

\* the lines of print_devices for a list when there is no catalog entry to
\* use: the identity alone
BareLines(vidpids) ==
    [k \in 1..Len(vidpids) |->
        [id |-> Format04x(vidpids[k][1]) \o <<":">> \o Format04x(vidpids[k][2]),
         descr |-> <<>>]]

\* C11: a catalog that cannot be populated (remote source unreachable,
\* download failed, no cache file) never stops the process: the only
\* exception that can end it is that of extract_ids inside the enumeration,
\* load_ids always hands over to the enumeration, and with an empty catalog
\* every device is printed as its bare identity.
C11_CatalogFailureNeverStops ==
    /\ pc = "raised" => extract_ids(path).raised
    /\ (pc = "print_installed" /\ VIDPID = EmptyCatalog)
          => print_devices(VIDPID, prev_list) = BareLines(prev_list)

----------------------------------------------------------------------------

\* what print_diff(old, new) prints
DiffLinesOf(old, new) ==
    print_diff_Lines(VIDPID, print_diff_Lists(old, new).added,
                     print_diff_Lists(old, new).removed)

\* one tracking iteration from the comparison of line 206 to the sleep
IterationStep ==
    /\ (pc = "compare" /\ new_list = prev_list)
          => /\ pc' = "sleep"
             /\ out = <<>>
             /\ out' = out
             /\ prev_list' = prev_list
    /\ (pc = "compare" /\ new_list # prev_list)
          => /\ pc' = "print_diff"
             /\ UNCHANGED <<prev_list, new_list, out>>
    /\ (pc = "print_diff" /\ caller = "loop")
          => /\ pc' = "print_diff_out"
             /\ UNCHANGED <<prev_list, new_list, out>>
    /\ (pc = "print_diff_out" /\ caller = "loop")
          => /\ pc' = "sleep"
             /\ out' = DiffLinesOf(prev_list, new_list) \o <<"">>
             /\ prev_list' = new_list
             /\ new_list' = new_list
    /\ (pc # "sleep" /\ pc' = "sleep") => prev_list' = new_list'

\* C12: in every tracking iteration, a new snapshot unequal to the retained
\* one (as lists) has the diff of (retained, new) printed and then replaces
\* the retained one; an equal one prints nothing and leaves the retained one
\* alone.  So every iteration ends with the retained snapshot equal to the
\* snapshot of the latest poll.
C12_IterationRetainsLatestPoll == [][IterationStep]_vars

\* an iteration that found a device gone has ended
C12_Witness ==
    /\ pc = "sleep"
    /\ caller = "loop"
    /\ Len(out) >= 3
    /\ out[1] = "Removed devices:"
    /\ prev_list = new_list
    /\ prev_list # <<>>

----------------------------------------------------------------------------

\* the command line is a usage error (lines 186-194)
UsageError == Len(argv) > 1 \/ (Len(argv) = 1 /\ argv[1] # "track")

\* the statements of the tracking loop, lines 204-210
LoopPcs == {"loop", "compare", "print_diff", "print_diff_out", "sleep"}

\* C13: a usage error prints the usage text and exits with no catalog
\* loaded and no session opened; with no argument the program enumerates
\* once and exits (it never enters the loop and does not end before its
\* enumeration has begun); with "track" it enumerates once and enters the
\* loop (it does not exit, and does not end before its enumeration has begun).
C13_ArgumentsSelectMode ==
    /\ UsageError
          => /\ pc \in {"main", "exit"}
             /\ pc = "exit" => out = <<UsageLine>>
             /\ VIDPID = EmptyCatalog
             /\ os_open = 0
             /\ h_devs = NullHandle
    /\ argv = <<>>
          => /\ mode = "list"
             /\ caller = "first"
             /\ pc \notin LoopPcs
             /\ pc = "raised" => h_devs = ValidHandle
    /\ argv = <<"track">>
          => /\ pc # "exit"
             /\ pc \notin {"main", "load_ids"} => mode = "track"
             /\ pc = "raised" => h_devs = ValidHandle

----------------------------------------------------------------------------

\* the statements of get_dev_list before its return
ScanPcs == {"get_class_devs", "enum", "probe", "fetch", "append", "destroy"}

\* what a step may do to the two snapshots main holds
SnapshotFrame ==
    /\ pc = "print_diff" => UNCHANGED <<prev_list, new_list>>
    /\ pc = "print_diff_out" => new_list' = new_list
    /\ pc \in ScanPcs => UNCHANGED <<prev_list, new_list>>
    /\ (pc \notin ScanPcs /\ pc' = "get_class_devs") => ret' = <<>>
    /\ prev_list' # prev_list
          => \/ pc = "print_diff_out" /\ caller = "loop" /\ prev_list' = new_list
             \/ pc = "return" /\ caller = "first" /\ prev_list' = ret
    /\ new_list' # new_list
          => pc = "return" /\ caller # "first" /\ new_list' = ret

\* C14: print_diff leaves both of its input lists as they are, every poll
\* starts from a fresh empty list and touches neither snapshot while it
\* runs, and the retained snapshot changes only by being replaced as a whole
\* by the new snapshot (or, at line 198, by the first one).
C14_SnapshotsNeverMutated == [][SnapshotFrame]_vars

\* print_diff has built an added and a removed list from two snapshots of
\* two devices
C14_Witness ==
    /\ pc = "print_diff_out"
    /\ caller = "loop"
    /\ added # <<>>
    /\ removed # <<>>
    /\ Len(prev_list) = 2
    /\ Len(new_list) = 2

----------------------------------------------------------------------------

\* C15: whenever the sized fetch of an entry is about to be made, the
\* length it sizes its buffer with (size.value, line 166) is the length the
\* sizing probe of this very entry returned: the probe of the entry has
\* yielded a length, and size is that length, not one left from an earlier
\* entry and not the initial 0.
C15_FetchUsesProbedLength ==
    pc = "fetch"
        => /\ probes[Len(probes)] = 122
           /\ size = RequiredSize(session[intf])

----------------------------------------------------------------------------

\* both components of every identity of the list are unsigned 16-bit
Unsigned16(list) ==
    \A k \in 1..Len(list) : list[k][1] \in 0..65535 /\ list[k][2] \in 0..65535

\* C16: every identity extract_ids returns, and so every element of the
\* list being built and of every snapshot, has both components in 0..65535.
C16_IdentityIsUnsigned16 ==
    /\ Unsigned16(ret)
    /\ Unsigned16(prev_list)
    /\ Unsigned16(new_list)

----------------------------------------------------------------------------

\* C17: within one call of get_dev_list the indices queried are 0, 1, 2, ...
\* with none skipped or repeated; at every start of the loop body the list
\* holds as many identities as the index says; and the k-th element of the
\* list is the identity of the entry at OS index k - 1.
C17_IndexCountsTheList ==
    /\ \A k \in 1..Len(queries) : queries[k] = k - 1
    /\ pc = "enum" => (Len(ret) = index /\ Len(queries) = index)
    /\ pc \in {"probe", "fetch", "append"}
          => (Len(ret) = index /\ Len(queries) = index + 1 /\ intf = index + 1)
    /\ Len(ret) <= Len(devs)
    /\ ret = IdentitiesBefore(Len(ret))

\* the third query of a call is about to be made after two different
\* identities were appended
C17_Witness ==
    /\ pc = "enum"
    /\ index = 2
    /\ queries = <<0, 1>>
    /\ Len(ret) = 2
    /\ ret[1] # ret[2]

----------------------------------------------------------------------------

\* the two snapshots hold the same distinct identities
SameIdentities == Range(prev_list) = Range(new_list)

\* an iteration whose new snapshot differs from the retained one in order or
\* multiplicity only
SilentChangeStep ==
    /\ (pc = "compare" /\ new_list # prev_list /\ SameIdentities)
          => pc' = "print_diff"
    /\ (pc = "print_diff" /\ caller = "loop" /\ SameIdentities)
          => /\ added' = <<>>
             /\ removed' = <<>>
             /\ out' = <<>>
    /\ (pc = "print_diff_out" /\ caller = "loop" /\ SameIdentities)
          => /\ out' = <<"">>
             /\ prev_list' = new_list
             /\ pc' = "sleep"

\* C18: a new snapshot that differs from the retained one only in the order
\* or the multiplicity of its identities counts as a change: print_diff is
\* called, its added and removed lists are empty, neither section is
\* printed, the blank line alone is printed, and the new snapshot replaces
\* the retained one.
C18_ReorderIsSilentChange == [][SilentChangeStep]_vars

\* a second device with the identity of an attached one has been plugged in
C18_Witness ==
    /\ pc = "print_diff_out"
    /\ caller = "loop"
    /\ added = <<>>
    /\ removed = <<>>
    /\ Len(prev_list) = 1
    /\ new_list = <<prev_list[1], prev_list[1]>>

----------------------------------------------------------------------------

\* extract_ids raises for none of the attached devices
AllParse == \A k \in 1..Len(devs) : ~extract_ids(devs[k]).raised

\* the identities of all attached devices, in enumeration order
Attached == IdentitiesBefore(Len(devs))

\* the lines of one section of print_diff
Section(title, list) ==
    IF list # <<>> THEN <<title>> \o print_devices(VIDPID, list) ELSE <<>>

\* the poll of the current iteration printed an error of a SetupAPI call
FailedPoll == caller = "loop" /\ errors # <<>>

\* an iteration around a failed poll, and the iteration of a poll that
\* succeeded
FailedPollStep ==
    /\ (pc = "compare" /\ FailedPoll)
          => /\ Len(new_list) <= Len(devs)
             /\ new_list = IdentitiesBefore(Len(new_list))
             /\ new_list # prev_list => pc' = "print_diff"
    /\ (pc = "print_diff_out" /\ FailedPoll)
          => /\ removed = Absent(prev_list, new_list)
             /\ out' = Section("Added devices:", added)
                          \o Section("Removed devices:", removed) \o <<"">>
             /\ prev_list' = new_list
             /\ pc' = "sleep"
    /\ (pc = "print_diff_out" /\ caller = "loop" /\ errors = <<>>)
          => /\ AllParse
             /\ new_list = Attached
             /\ added = Absent(Attached, prev_list)
             /\ out' = Section("Added devices:", added)
                          \o Section("Removed devices:", removed) \o <<"">>

\* C19: a poll that an OS failure left empty or truncated is handled as a
\* device change: the identities the retained snapshot holds and the list
\* lacks are printed under "Removed devices:" and the list replaces the
\* retained snapshot; a later poll that succeeds prints under
\* "Added devices:" the identities of the attached devices that the retained
\* snapshot lacks.
C19_FailedPollIsAChange == [][FailedPollStep]_vars

\* the poll failed and identities are about to be printed as removed while
\* every device of the retained snapshot is still attached
C19_Witness ==
    /\ pc = "print_diff_out"
    /\ FailedPoll
    /\ removed # <<>>
    /\ AllParse
    /\ prev_list = Attached

====
